---- MODULE Spec2Model ----
(***************************************************************************)
(* Model of the download-and-persist pipeline of volatility-prediction:    *)
(*   src/utils/io.py       filename generation, CSV save and load          *)
(*   src/download_data.py  StockDataDownloader (single and batch download) *)
(*   src/utils/logger.py   DownloadLogger messages, handlers and log files *)
(*   src/utils/seeding.py  SeedManager                                     *)
(*                                                                         *)
(* Strings are sequences of one-character strings, so that endswith and    *)
(* concatenation are computed.  An Optional value is a sequence of length  *)
(* 0 (None) or 1 (the value).                                              *)
(***************************************************************************)
EXTENDS Integers, Sequences, FiniteSets, TLC

VARIABLES
    clock,          \* wall clock read by datetime.now(), in sub-second ticks
    files,          \* the file system: path -> CSV content
    writes,         \* history of the CSV writes (path, ticker, period, second)
    ioArg,          \* the custom filename the generate_filename calls may pass
    ioCalls,        \* history of generate_filename calls
    ioLast,         \* outcome of the last save_dataframe_to_csv / load_csv_data call
    use_logging,    \* StockDataDownloader.logger is not None
    pc,             \* "idle", "loop" (inside download_multiple_stocks), "done"
    batch,          \* arguments of the running download_multiple_stocks call
    idx,            \* number of tickers of the batch already processed
    results,        \* the dict `results`: keys in insertion order, and values
    attempts,       \* history of download_single_stock calls and outcomes
    fetched,        \* history of remote calls (stock.history), by ticker
    log,            \* lines emitted through the logger
    console,        \* lines emitted through print
    excel,          \* history of save_multiple_stocks_to_excel calls
    returned,       \* value returned by download_multiple_stocks (Optional)
    raised,         \* an exception left download_single/multiple_stock(s)
    _seed,          \* SeedManager._seed of the singleton instance
    _experiment_seeds,  \* SeedManager._experiment_seeds: name -> derived seed
    hashOf,         \* hash() of this process: string -> signed 64-bit value
    seedCalls,      \* history of the calls made on the seed manager
    handlers,       \* logging registry: logger name -> its list of handlers
    levels,         \* logging registry: logger name -> level of the logger
    logfiles,       \* the log files: path -> lines appended
    logcalls        \* history of logger constructions and messages

vars == <<clock, files, writes, ioArg, ioCalls, ioLast, use_logging, pc, batch, idx,
          results, attempts, fetched, log, console, excel, returned, raised,
          _seed, _experiment_seeds, hashOf, seedCalls,
          handlers, levels, logfiles, logcalls>>

seedVars == <<_seed, _experiment_seeds, hashOf, seedCalls>>
lgVars == <<handlers, levels, logfiles, logcalls>>

ioVars == <<ioArg, ioCalls, ioLast>>
dlVars == <<use_logging, pc, batch, idx, results, attempts, fetched, log,
            console, excel, returned, raised>>

----------------------------------------------------------------------------
(* Bounds *)

MaxClock    == 2      \* ticks the wall clock may advance
MaxRows     == 2      \* rows of a data frame
MaxCols     == 2      \* price columns of a data frame
MaxNameLen  == 3      \* characters of a custom filename
MaxIoCalls  == 3      \* generate_filename calls of one run
MaxWrites   == 1      \* direct save_dataframe_to_csv calls of one run
MaxTickers  == 2      \* tickers of one batch
MaxSingles  == 1      \* direct download_single_stock calls of one run

MaxSeedCalls == 4     \* calls on the seed manager of one run
MaxLogCalls == 3      \* logger constructions and messages of one run

TicksPerSecond == 2   \* clock ticks per wall-clock second

----------------------------------------------------------------------------
(* Values *)

None == <<>>
Some(x) == <<x>>
IsNone(o) == Len(o) = 0
Get(o) == o[1]

Range(s) == {s[k] : k \in DOMAIN s}

SeqsUpTo(S, n) == UNION {[1..k -> S] : k \in 0..n}

Tickers == {<<"A">>, <<"B">>}
Periods == {<<"1", "y">>, <<"5", "d">>}
DefaultPeriod == <<"1", "y">>
NameChars == {".", "c", "s", "v"}
CustomNames ==
    SeqsUpTo(NameChars, MaxNameLen)
        \cup {<<".", "c", "s", "v">>, <<"c", ".", "c", "s", "v">>}
OutputDir == <<"r", "a", "w">>

\* Column labels: a kind ("str" or "int") and the text str(label).
StrLabel(s) == <<"str", s>>
IntLabel(s) == <<"int", s>>
IndexName == "Date"
PriceColumns == <<StrLabel("Open"), StrLabel("Close"), StrLabel("High"),
                  StrLabel("Low"), StrLabel("Volume")>>

\* Column lists: the first k price columns, alone, or followed by a column
\* that has the name of the index, or by a column whose label is an integer.
ColumnLists ==
    LET prefix(k) == SubSeq(PriceColumns, 1, k)
    IN  {prefix(k) : k \in 1..MaxCols}
            \cup {prefix(1) \o <<StrLabel(IndexName)>>, prefix(1) \o <<IntLabel("0")>>}

\* A data frame: what its index is, its column labels and its number of rows.
\*   "named"   a DatetimeIndex whose name is IndexName
\*   "unnamed" a DatetimeIndex without a name
\*   "range"   the default RangeIndex (no datetime index)
IndexKinds == {"named", "unnamed", "range"}
Frames == [index : IndexKinds, columns : ColumnLists, nrows : 0..MaxRows]

----------------------------------------------------------------------------
(* src/utils/io.py : generate_filename *)

EndsWith(s, suffix) ==
    /\ Len(s) >= Len(suffix)
    /\ SubSeq(s, Len(s) - Len(suffix) + 1, Len(s)) = suffix

DotCsv == <<".", "c", "s", "v">>

DigitChars == <<"0", "1", "2", "3", "4", "5", "6", "7", "8", "9">>
Digits2(n) == <<DigitChars[(n \div 10) + 1], DigitChars[(n % 10) + 1]>>

\* The second shown by the wall clock at tick t.
SecondOf(t) == t \div TicksPerSecond

\* Faulty variant of Strftime: the format "%Y%m%d_%H%M", without the seconds.
StrftimeMinuteMut(t) ==
    <<"2", "0", "2", "4", "0", "1", "0", "1", "_">>
        \o Digits2(SecondOf(t) \div 3600)
        \o Digits2((SecondOf(t) \div 60) % 60)

\* datetime.now().strftime("%Y%m%d_%H%M%S"): the day is fixed, the time of day
\* is the wall-clock second; everything below one second is dropped.
Strftime(t) ==
    <<"2", "0", "2", "4", "0", "1", "0", "1", "_">>
        \o Digits2(SecondOf(t) \div 3600)
        \o Digits2((SecondOf(t) \div 60) % 60)
        \o Digits2(SecondOf(t) % 60)

\* Faulty variant of generate_filename: '.csv' is appended without the
\* endswith test.
generate_filename_AppendMut(ticker, period, custom_filename, now) ==
    IF ~IsNone(custom_filename)
    THEN Get(custom_filename) \o DotCsv
    ELSE ticker \o <<"_">> \o period \o <<"_">> \o Strftime(now) \o DotCsv

\* generate_filename(ticker, period, custom_filename), called at clock tick now.
generate_filename(ticker, period, custom_filename, now) ==
    IF ~IsNone(custom_filename)
    THEN IF EndsWith(Get(custom_filename), DotCsv)
         THEN Get(custom_filename)
         ELSE Get(custom_filename) \o DotCsv
    ELSE ticker \o <<"_">> \o period \o <<"_">> \o Strftime(now) \o DotCsv

----------------------------------------------------------------------------
(* src/utils/io.py : save_dataframe_to_csv, load_csv_data *)

\* A table as handed to to_csv: the columns in order; the first datecols of
\* them hold the timestamps of the former index, the others hold floats.
DropIndex(df) ==
    [columns |-> df.columns, datecols |-> 0, nrows |-> df.nrows]

\* df.reset_index(inplace=True): the index becomes the first column.
reset_index(df) ==
    [columns |-> <<StrLabel(IndexName)>> \o df.columns, datecols |-> 1,
     nrows |-> df.nrows]

\* reset_index raises ValueError when a column already has the index's name.
ResetIndexRaises(df) == StrLabel(IndexName) \in Range(df.columns)

\* `if df_to_save.index.name:` -- only a named index is materialised;
\* to_csv(index=False) then leaves out whatever index remains.
PrepareForCsv(df) ==
    IF df.index = "named" THEN reset_index(df) ELSE DropIndex(df)

\* Faulty variant of to_csv: the last of several rows is not written.
to_csv_DropRowMut(table) ==
    [header |-> [k \in 1..Len(table.columns) |-> table.columns[k][2]],
     rows   |-> [r \in 1..(IF table.nrows > 1 THEN table.nrows - 1 ELSE table.nrows) |->
                    [k \in 1..Len(table.columns) |->
                        IF k <= table.datecols THEN <<"date", r>> ELSE <<"float", r>>]]]

\* to_csv(index=False, float_format, date_format): a header line with the
\* text of every label, then one line per row; a cell is the formatted
\* timestamp or float of row r.
to_csv(table) ==
    [header |-> [k \in 1..Len(table.columns) |-> table.columns[k][2]],
     rows   |-> [r \in 1..table.nrows |->
                    [k \in 1..Len(table.columns) |->
                        IF k <= table.datecols THEN <<"date", r>> ELSE <<"float", r>>]]]

\* Faulty variant of read_csv: the first line is read as a row (header=None).
read_csv_NoHeaderMut(content) ==
    [index |-> "range",
     columns |-> [k \in 1..Len(content.header) |-> IntLabel("0")],
     nrows |-> Len(content.rows) + 1]

\* pd.read_csv: the first line names the columns, every further line is a row.
read_csv(content) ==
    [index |-> "range",
     columns |-> [k \in 1..Len(content.header) |-> StrLabel(content.header[k])],
     nrows |-> Len(content.rows)]

NoFiles == [p \in {} |-> 0]

PathOf(ticker, period, filename, now) ==
    OutputDir \o <<"/">> \o generate_filename(ticker, period, filename, now)

\* save_dataframe_to_csv raises when the directory or the file cannot be
\* written (ioFails, decided by the environment) or when reset_index raises;
\* nothing is written then.
SaveRaises(df, ioFails) ==
    ioFails \/ (df.index = "named" /\ ResetIndexRaises(df))

SaveError(df, ioFails) ==
    IF ioFails THEN "OSError"
    ELSE IF df.index = "named" /\ ResetIndexRaises(df) THEN "ValueError"
    ELSE ""

\* The effect of save_dataframe_to_csv on the file system; `writes` records
\* every write with the second of the wall clock and whether it replaced a
\* file that was there.
save_dataframe_to_csv(df, ticker, period, filename, ioFails) ==
    LET path == PathOf(ticker, period, filename, clock)
    IN  IF SaveRaises(df, ioFails)
        THEN UNCHANGED <<files, writes>>
        ELSE /\ files' = (path :> to_csv(PrepareForCsv(df))) @@ files
             /\ writes' = Append(writes,
                    [path |-> path, ticker |-> ticker, period |-> period,
                     auto |-> IsNone(filename), second |-> SecondOf(clock),
                     replaced |-> path \in DOMAIN files, df |-> df])

\* The last write to a path.
LastWrite(path) ==
    LET ks == {k \in DOMAIN writes : writes[k].path = path}
    IN  writes[CHOOSE k \in ks : \A j \in ks : j <= k]

MissingPath == OutputDir \o <<"/", "?">>

----------------------------------------------------------------------------
(* The wall clock *)

Tick ==
    /\ clock < MaxClock
    /\ clock' = clock + 1
    /\ UNCHANGED <<files, writes, ioVars, dlVars, seedVars, lgVars>>

----------------------------------------------------------------------------
(* Specification SpecName: calls of generate_filename *)

NoIoLast == [op |-> "none", path |-> <<>>, result |-> None, error |-> ""]

DlIdle ==
    /\ use_logging = TRUE
    /\ pc = "idle"
    /\ batch = None
    /\ idx = 0
    /\ results = <<>>
    /\ attempts = <<>>
    /\ fetched = <<>>
    /\ log = <<>>
    /\ console = <<>>
    /\ excel = <<>>
    /\ returned = None
    /\ raised = FALSE

\* SeedManager.__init__: the default seed.
DefaultSeed == 42

\* A map without keys (an empty dict, an empty registry).
EmptyMap == [k \in {} |-> 0]

\* The seed manager as constructed and never used.
SeedIdle ==
    /\ _seed = DefaultSeed
    /\ _experiment_seeds = EmptyMap
    /\ hashOf = EmptyMap
    /\ seedCalls = <<>>

\* No logger was set up and nothing was logged.
LogIdle ==
    /\ handlers = EmptyMap
    /\ levels = EmptyMap
    /\ logfiles = EmptyMap
    /\ logcalls = <<>>

InitName ==
    /\ clock = 0
    /\ files = NoFiles
    /\ writes = <<>>
    /\ ioArg \in {Some(c) : c \in CustomNames}
    /\ ioCalls = <<>>
    /\ ioLast = NoIoLast
    /\ DlIdle
    /\ SeedIdle
    /\ LogIdle

\* One call generate_filename(ticker, period, custom), with or without the
\* custom filename; `again` is the result of passing the returned name back in
\* as the custom filename.
GenerateFilename(ticker, period, custom) ==
    /\ Len(ioCalls) < MaxIoCalls
    /\ LET name == generate_filename(ticker, period, custom, clock)
       IN  ioCalls' = Append(ioCalls,
               [ticker |-> ticker, period |-> period, custom |-> custom,
                second |-> SecondOf(clock), name |-> name,
                again |-> generate_filename(ticker, period, Some(name), clock)])
    /\ UNCHANGED <<clock, files, writes, ioArg, ioLast, dlVars, seedVars, lgVars>>

NextName ==
    \/ Tick
    \/ \E t \in Tickers : GenerateFilename(t, DefaultPeriod, None)
    \/ GenerateFilename(<<"A">>, DefaultPeriod, ioArg)

SpecName == InitName /\ [][NextName]_vars

----------------------------------------------------------------------------
(* Specification SpecIO: direct calls of save_dataframe_to_csv,             *)
(* load_csv_data and get_data_file_info                                    *)

SaveNames == {None, Some(<<"c">>)}

\* The records saved directly: every column list for the records without
\* rows and with MaxRows rows, one column for the row counts in between.
IoFrames == {f \in Frames : f.nrows \in 1..(MaxRows - 1) => Len(f.columns) = 1}

InitIO ==
    /\ clock = 0
    /\ files = NoFiles
    /\ writes = <<>>
    /\ ioArg = None
    /\ ioCalls = <<>>
    /\ ioLast = NoIoLast
    /\ DlIdle
    /\ SeedIdle
    /\ LogIdle

SaveCsv(df, ticker, period, filename, ioFails) ==
    /\ Len(writes) < MaxWrites
    /\ save_dataframe_to_csv(df, ticker, period, filename, ioFails)
    /\ ioLast' = [op |-> "save",
                  path |-> PathOf(ticker, period, filename, clock),
                  result |-> IF SaveRaises(df, ioFails) THEN None ELSE Some(df),
                  error |-> SaveError(df, ioFails)]
    /\ UNCHANGED <<clock, ioArg, ioCalls, dlVars, seedVars, lgVars>>

\* load_csv_data(filepath): FileNotFoundError for a missing path, else the
\* parsed frame.
load_csv_data(filepath) ==
    IF filepath \notin DOMAIN files
    THEN [op |-> "load", path |-> filepath, result |-> None,
          error |-> "FileNotFoundError"]
    ELSE [op |-> "load", path |-> filepath,
          result |-> Some(read_csv(files[filepath])), error |-> ""]

LoadCsv(filepath) ==
    /\ ioLast' = load_csv_data(filepath)
    /\ UNCHANGED <<clock, files, writes, ioArg, ioCalls, dlVars, seedVars, lgVars>>

\* Faulty variant of get_data_file_info: the header line is counted as a row.
get_data_file_info_CountHeaderMut(filepath) ==
    IF filepath \notin DOMAIN files
    THEN [op |-> "info", path |-> filepath, result |-> None,
          error |-> "FileNotFoundError"]
    ELSE LET df == read_csv(files[filepath])
         IN  [op |-> "info", path |-> filepath,
              result |-> Some([rows |-> df.nrows + 1, columns |-> Len(df.columns),
                               column_names |-> df.columns]),
              error |-> ""]

\* get_data_file_info(filepath): FileNotFoundError for a missing path, else
\* the counts of pd.read_csv(filepath): 'rows' is len(df), 'columns' is
\* len(df.columns), 'column_names' is list(df.columns).
get_data_file_info(filepath) ==
    IF filepath \notin DOMAIN files
    THEN [op |-> "info", path |-> filepath, result |-> None,
          error |-> "FileNotFoundError"]
    ELSE LET df == read_csv(files[filepath])
         IN  [op |-> "info", path |-> filepath,
              result |-> Some([rows |-> df.nrows, columns |-> Len(df.columns),
                               column_names |-> df.columns]),
              error |-> ""]

\* Neither os.path.exists, pd.read_csv nor os.stat writes to the file system.
GetInfo(filepath) ==
    /\ ioLast' = get_data_file_info(filepath)
    /\ UNCHANGED <<clock, files, writes, ioArg, ioCalls, dlVars, seedVars, lgVars>>

NextIO ==
    \/ Tick
    \/ \E df \in IoFrames, fn \in SaveNames, ioFails \in BOOLEAN :
           SaveCsv(df, <<"A">>, DefaultPeriod, fn, ioFails)
    \/ \E path \in DOMAIN files \cup {MissingPath} : LoadCsv(path)
    \/ \E path \in DOMAIN files \cup {MissingPath} : GetInfo(path)

SpecIO == InitIO /\ [][NextIO]_vars

----------------------------------------------------------------------------
(* src/utils/logger.py : the lines a DownloadLogger emits *)

LogLine(level, kind, ticker, rows, text) ==
    [level |-> level, kind |-> kind, ticker |-> ticker, rows |-> rows, text |-> text]

\* DownloadLogger.log_download_start -> DataLogger.info
log_download_start(ticker) == LogLine("INFO", "start", ticker, 0, "")
\* DataLogger.warning(f"No data found for {ticker}")
log_no_data(ticker) == LogLine("WARNING", "no_data", ticker, 0, "")
\* DownloadLogger.log_download_complete -> DataLogger.success
log_download_complete(ticker, rows) == LogLine("INFO", "complete", ticker, rows, "")
\* DownloadLogger.log_download_error -> DataLogger.error
log_download_error(ticker, error) == LogLine("ERROR", "error", ticker, 0, error)
\* DownloadLogger.log_data_stats -> DataLogger.debug
log_data_stats(ticker, rows) == LogLine("DEBUG", "stats", ticker, rows, "")

\* ", ".join(columns) raises TypeError unless every label is a str.
StatsRaises(df) == \E k \in DOMAIN df.columns : df.columns[k][1] # "str"

\* DataLogger.separator prints; print(f"Error downloading ...") prints.
SeparatorLine == [kind |-> "separator", ticker |-> <<>>, text |-> ""]
PrintedError(ticker, error) == [kind |-> "error", ticker |-> ticker, text |-> error]

----------------------------------------------------------------------------
(* src/download_data.py : StockDataDownloader.download_single_stock *)

\* What the remote call stock.history() gives: None when it raises, else a
\* frame with a named DatetimeIndex, possibly without rows.  One frame stands
\* for the frames without rows and one for those with a label that is no str.
RemoteColumns == {<<StrLabel("Open")>>, <<StrLabel("Open"), IntLabel("0")>>}
RemoteFrames ==
    {f \in [index : {"named"}, columns : RemoteColumns, nrows : 0..MaxRows] :
        f.nrows # 1 => f.columns = <<StrLabel("Open")>>}
RemoteResults == {None} \cup {Some(f) : f \in RemoteFrames}

\* df.empty
Empty(df) == df.nrows = 0 \/ Len(df.columns) = 0

\* The way one call of download_single_stock ends.
Outcome(remote, ioFails) ==
    IF IsNone(remote) THEN "fetch_error"
    ELSE IF Empty(Get(remote)) THEN "empty"
    ELSE IF SaveRaises(Get(remote), ioFails) THEN "save_error"
    ELSE IF use_logging /\ StatsRaises(Get(remote)) THEN "stats_error"
    ELSE "ok"

\* str(e) of the exception that ends the try block.
ErrorText(remote, ioFails) ==
    CASE Outcome(remote, ioFails) = "fetch_error" -> "RemoteError"
      [] Outcome(remote, ioFails) = "save_error"  -> SaveError(Get(remote), ioFails)
      [] Outcome(remote, ioFails) = "stats_error" -> "TypeError"
      [] OTHER -> ""

IsError(outcome) == outcome \in {"fetch_error", "save_error", "stats_error"}

\* Faulty variant of Caught: only the error of the remote call is caught.
CaughtOnlyFetchMut(outcome) == outcome = "fetch_error"

\* `except Exception as e:` catches every exception raised in the try block.
Caught(outcome) == TRUE

\* The value download_single_stock returns.
ReturnOf(remote, ioFails) ==
    IF Outcome(remote, ioFails) = "ok" THEN remote ELSE None

\* The lines download_single_stock logs, in order.
LoggedBy(ticker, remote, ioFails) ==
    LET outcome == Outcome(remote, ioFails)
        start == <<log_download_start(ticker)>>
    IN  CASE outcome = "fetch_error" ->
                start \o <<log_download_error(ticker, ErrorText(remote, ioFails))>>
          [] outcome = "empty" ->
                start \o <<log_no_data(ticker)>>
          [] outcome = "save_error" ->
                start \o <<log_download_error(ticker, ErrorText(remote, ioFails))>>
          [] outcome = "stats_error" ->
                start \o <<log_download_complete(ticker, Get(remote).nrows),
                           log_download_error(ticker, ErrorText(remote, ioFails))>>
          [] OTHER ->
                start \o <<log_download_complete(ticker, Get(remote).nrows),
                           log_data_stats(ticker, Get(remote).nrows)>>

\* The lines printed by download_single_stock itself (logging disabled).
PrintedBy(ticker, remote, ioFails) ==
    IF ~use_logging /\ IsError(Outcome(remote, ioFails))
    THEN <<PrintedError(ticker, ErrorText(remote, ioFails))>>
    ELSE <<>>

\* One call of download_single_stock(ticker, period, interval, filename):
\* one remote call, the emptiness check, the save, the log lines, and the
\* except clause.  `attempts` records the call and what it returned.
download_single_stock(ticker, period, filename, remote, ioFails) ==
    LET outcome == Outcome(remote, ioFails)
        path == PathOf(ticker, period, filename, clock)
        saves == outcome \in {"save_error", "stats_error", "ok"}
    IN  /\ fetched' = Append(fetched, ticker)
        /\ IF saves
           THEN save_dataframe_to_csv(Get(remote), ticker, period, filename, ioFails)
           ELSE UNCHANGED <<files, writes>>
        /\ log' = IF use_logging THEN log \o LoggedBy(ticker, remote, ioFails) ELSE log
        /\ raised' = (raised \/ (IsError(outcome) /\ ~Caught(outcome)))
        /\ attempts' = Append(attempts,
               [ticker |-> ticker, remote |-> remote, outcome |-> outcome,
                ret |-> ReturnOf(remote, ioFails),
                text |-> ErrorText(remote, ioFails),
                wrote |-> IF files' # files \/ writes' # writes THEN Some(path) ELSE None,
                fileRows |-> IF writes' # writes THEN Len(files'[path].rows) ELSE 0,
                fetches |-> Len(fetched') - Len(fetched),
                lines |-> SubSeq(log', Len(log) + 1, Len(log')),
                printed |-> PrintedBy(ticker, remote, ioFails),
                second |-> SecondOf(clock)])

\* The environment decides ioFails only when the save is reached.
SaveReached(remote) == ~IsNone(remote) /\ ~Empty(Get(remote))

\* A direct call (download_stock_data, or the method on a downloader).
Single(ticker, period, filename, remote, ioFails) ==
    /\ pc = "idle"
    /\ Len(attempts) < MaxSingles
    /\ ioFails => SaveReached(remote)
    /\ download_single_stock(ticker, period, filename, remote, ioFails)
    /\ console' = console \o PrintedBy(ticker, remote, ioFails)
    /\ UNCHANGED <<clock, ioVars, use_logging, pc, batch, idx, results, excel, returned,
                   seedVars, lgVars>>

----------------------------------------------------------------------------
(* src/download_data.py : StockDataDownloader.download_multiple_stocks *)

\* The ticker lists passed to a batch, repeats allowed; the two tickers are
\* interchangeable, so a list starts with the first of them.
TickerLists ==
    {ts \in SeqsUpTo(Tickers, MaxTickers) : Len(ts) > 0 => ts[1] = <<"A">>}

\* The dict `results` is a sequence of entries in insertion order.
Keys(d) == [k \in DOMAIN d |-> d[k].key]
HasKey(d, key) == \E k \in DOMAIN d : d[k].key = key

\* results[ticker] = df : a new key goes to the end, an existing key keeps its
\* place and gets the new value.
DictSet(d, key, value) ==
    IF HasKey(d, key)
    THEN [k \in DOMAIN d |-> IF d[k].key = key
                             THEN [key |-> key, value |-> value] ELSE d[k]]
    ELSE Append(d, [key |-> key, value |-> value])

\* Faulty variant of Store: the entry is set without the `is not None` test.
StoreAlwaysMut(d, ticker, ret) ==
    DictSet(d, ticker, IF IsNone(ret) THEN [index |-> "range", columns |-> <<>>, nrows |-> 0]
                       ELSE Get(ret))

\* `if df is not None: results[ticker] = df`
Store(d, ticker, ret) ==
    IF ~IsNone(ret) THEN DictSet(d, ticker, Get(ret)) ELSE d

\* Entry of download_multiple_stocks: results = {}.
StartBatch(tickers, period, save_individual, save_combined_excel) ==
    /\ pc = "idle"
    /\ attempts = <<>>
    /\ batch' = Some([tickers |-> tickers, period |-> period,
                      save_individual |-> save_individual,
                      save_combined_excel |-> save_combined_excel])
    /\ results' = <<>>
    /\ idx' = 0
    /\ pc' = "loop"
    /\ UNCHANGED <<clock, files, writes, ioVars, use_logging, attempts, fetched,
                   log, console, excel, returned, raised, seedVars, lgVars>>

\* Faulty variant of NextIndex: the loop stops at the first failed ticker.
NextIndexStopOnFailureMut(i, ret) ==
    IF IsNone(ret) THEN Len(Get(batch).tickers) ELSE i + 1

\* The index the loop goes to after the iteration for position i.
NextIndex(i, ret) == i + 1

\* One iteration of `for ticker in tickers:`.
LoopStep(remote, ioFails) ==
    /\ pc = "loop"
    /\ idx < Len(Get(batch).tickers)
    /\ ioFails => SaveReached(remote)
    /\ LET ticker == Get(batch).tickers[idx + 1]
       IN  /\ download_single_stock(ticker, Get(batch).period, None, remote, ioFails)
           /\ results' = Store(results, ticker, ReturnOf(remote, ioFails))
           /\ console' = console \o PrintedBy(ticker, remote, ioFails)
                            \o (IF use_logging THEN <<SeparatorLine>> ELSE <<>>)
           /\ idx' = NextIndex(idx, ReturnOf(remote, ioFails))
    /\ UNCHANGED <<clock, ioVars, use_logging, pc, batch, excel, returned,
                   seedVars, lgVars>>

\* Faulty variant of ExcelWanted: `if save_combined_excel:`.
ExcelWantedIgnoreEmptyMut(b, d) == b.save_combined_excel

\* `if save_combined_excel and results:`
ExcelWanted(b, d) == b.save_combined_excel /\ Len(d) > 0

\* Faulty variant of ReturnAfterExcel: a failed write empties the result set.
ReturnAfterExcelDropMut(d, excelFails) == IF excelFails THEN <<>> ELSE d

\* The value returned after the Excel step.
ReturnAfterExcel(d, excelFails) == d

\* After the loop: the optional combined Excel write, then `return results`.
\* The workbook write may fail (excelFails); the failure is caught and logged.
Finish(excelFails) ==
    /\ pc = "loop"
    /\ idx >= Len(Get(batch).tickers)
    /\ excelFails => ExcelWanted(Get(batch), results)
    /\ IF ExcelWanted(Get(batch), results)
       THEN /\ excel' = Append(excel,
                    [sheets |-> Keys(results), ok |-> ~excelFails,
                     processed |-> Len(attempts), files |-> files])
            /\ log' = IF ~use_logging THEN log
                      ELSE IF excelFails
                           THEN Append(log, LogLine("ERROR", "excel_failed", <<>>, 0, "ExcelError"))
                           ELSE Append(log, LogLine("INFO", "excel_saved", <<>>, 0, ""))
       ELSE UNCHANGED <<excel, log>>
    /\ returned' = Some(ReturnAfterExcel(results, excelFails))
    /\ pc' = "done"
    /\ UNCHANGED <<clock, files, writes, ioVars, use_logging, batch, idx, results,
                   attempts, fetched, console, raised, seedVars, lgVars>>

----------------------------------------------------------------------------
(* Specification Spec: a downloader, used for direct calls or for one batch *)

Init ==
    /\ clock = 0
    /\ files = NoFiles
    /\ writes = <<>>
    /\ ioArg = None
    /\ ioCalls = <<>>
    /\ ioLast = NoIoLast
    /\ use_logging \in BOOLEAN
    /\ pc = "idle"
    /\ batch = None
    /\ idx = 0
    /\ results = <<>>
    /\ attempts = <<>>
    /\ fetched = <<>>
    /\ log = <<>>
    /\ console = <<>>
    /\ excel = <<>>
    /\ returned = None
    /\ raised = FALSE
    /\ SeedIdle
    /\ LogIdle

Next ==
    \/ Tick
    \/ \E t \in Tickers, fn \in SaveNames, r \in RemoteResults, ioFails \in BOOLEAN :
           Single(t, DefaultPeriod, fn, r, ioFails)
    \/ \E ts \in TickerLists, si \in BOOLEAN, sx \in BOOLEAN :
           StartBatch(ts, DefaultPeriod, si, sx)
    \/ \E r \in RemoteResults, ioFails \in BOOLEAN : LoopStep(r, ioFails)
    \/ \E excelFails \in BOOLEAN : Finish(excelFails)

Spec == Init /\ [][Next]_vars

----------------------------------------------------------------------------
(* src/utils/seeding.py : SeedManager *)

ExperimentNames == {"x"}
SeedValues == {DefaultSeed, 7}

\* Numbers beyond 2^31 are written in limbs of 16 bits, most significant
\* first: a word <<h, l>> is h * 2^16 + l, below 2^32.
Limb == 65536
Words == (0..(Limb - 1)) \X (0..(Limb - 1))
ZeroWord == <<0, 0>>

\* 2 ** 32 - 1
Modulus == <<Limb - 1, Limb - 1>>

\* a + b for two words: the word of the sum and the carry out of it.
AddWords(a, b) ==
    LET lo == a[2] + b[2]
        hi == a[1] + b[1] + (lo \div Limb)
    IN  [carry |-> hi \div Limb, word |-> <<hi % Limb, lo % Limb>>]

\* hash() returns a signed 64-bit integer: a sign and a magnitude
\* hi * 2^32 + lo of two words.
Hash(neg, hi, lo) == [neg |-> neg, hi |-> hi, lo |-> lo]

\* The hash values the strings of one process may have:
\* -1, 2^32 - 1, 2^63 - 1 and -2^63.
HashValues ==
    {Hash(TRUE, ZeroWord, <<0, 1>>),
     Hash(FALSE, ZeroWord, Modulus),
     Hash(FALSE, <<32767, Limb - 1>>, Modulus),
     Hash(TRUE, <<32768, 0>>, ZeroWord)}

\* h % (2 ** 32 - 1) as Python computes it, the result in 0 .. 2^32 - 2 also
\* for a negative h.  Since 2^32 is 1 modulo 2^32 - 1, the magnitude
\* hi * 2^32 + lo is congruent to hi + lo, and a carry counts 1.
PyMod(h) ==
    LET s == AddWords(h.hi, h.lo)
        t == AddWords(s.word, <<0, s.carry>>).word
        r == IF t = Modulus THEN ZeroWord ELSE t
    IN  IF h.neg /\ r # ZeroWord
        THEN <<Modulus[1] - r[1], Modulus[2] - r[2]>>
        ELSE r

\* f"{experiment_name}_{self._seed}"
FormatKey(experiment_name, seed) == <<experiment_name, "_", seed>>

HashInputs == {FormatKey(n, sd) : n \in ExperimentNames, sd \in SeedValues}

\* Faulty variant of create_experiment_seed: the name is hashed with the
\* default seed instead of the current one.
create_experiment_seed_DefaultSeedMut(experiment_name) ==
    PyMod(hashOf[FormatKey(experiment_name, DefaultSeed)])

\* The value create_experiment_seed derives:
\* hash(f"{experiment_name}_{self._seed}") % (2 ** 32 - 1).
create_experiment_seed(experiment_name) ==
    PyMod(hashOf[FormatKey(experiment_name, _seed)])

\* dict.get(key, default)
DictGet(d, key, default) == IF key \in DOMAIN d THEN d[key] ELSE default

\* One call on the seed manager is recorded with the base seed and the
\* mapping it found, what it returned (a seed, a derived value) and how many
\* derivations it ran.
Called(op, name, arg, seed, value, derived) ==
    /\ Len(seedCalls) < MaxSeedCalls
    /\ seedCalls' = Append(seedCalls,
           [op |-> op, name |-> name, arg |-> arg, base |-> _seed,
            seed |-> seed, value |-> value, derived |-> derived,
            before |-> _experiment_seeds, after |-> _experiment_seeds'])
    /\ UNCHANGED <<clock, files, writes, ioVars, dlVars, lgVars, hashOf>>

\* SeedManager(): __new__ returns the one instance, and __init__ runs on it
\* again.
SeedManagerCall ==
    /\ _seed' = DefaultSeed
    /\ _experiment_seeds' = EmptyMap
    /\ Called("SeedManager", "", 0, None, None, 0)

\* set_seed(seed); the seeds of the numeric libraries are outside the model.
SetSeed(seed) ==
    /\ _seed' = seed
    /\ UNCHANGED _experiment_seeds
    /\ Called("set_seed", "", seed, None, None, 0)

GetSeed ==
    /\ UNCHANGED <<_seed, _experiment_seeds>>
    /\ Called("get_seed", "", 0, Some(_seed), None, 0)

CreateExperimentSeed(experiment_name) ==
    LET experiment_seed == create_experiment_seed(experiment_name)
    IN  /\ _experiment_seeds' =
               (experiment_name :> experiment_seed) @@ _experiment_seeds
        /\ UNCHANGED _seed
        /\ Called("create_experiment_seed", experiment_name, 0, None,
                  Some(experiment_seed), 1)

\* get_experiment_seed: the default handed to dict.get is the call
\* self.create_experiment_seed(experiment_name), which Python evaluates, and
\* which stores its result, before dict.get looks the name up.
GetExperimentSeed(experiment_name) ==
    LET default == create_experiment_seed(experiment_name)
        stored == (experiment_name :> default) @@ _experiment_seeds
    IN  /\ _experiment_seeds' = stored
        /\ UNCHANGED _seed
        /\ Called("get_experiment_seed", experiment_name, 0, None,
                  Some(DictGet(stored, experiment_name, default)), 1)

Reset ==
    /\ _seed' = DefaultSeed
    /\ _experiment_seeds' = EmptyMap
    /\ Called("reset", "", 0, None, None, 0)

\* get_reproducible_config(): its 'seed' is SeedManager().get_seed().
GetReproducibleConfig ==
    /\ _seed' = DefaultSeed
    /\ _experiment_seeds' = EmptyMap
    /\ Called("get_reproducible_config", "", 0, Some(DefaultSeed), None, 0)

\* The state after the first SeedManager() of a process, whose hash() is one
\* function on the strings hashed.
InitSeed ==
    /\ clock = 0
    /\ files = NoFiles
    /\ writes = <<>>
    /\ ioArg = None
    /\ ioCalls = <<>>
    /\ ioLast = NoIoLast
    /\ DlIdle
    /\ LogIdle
    /\ _seed = DefaultSeed
    /\ _experiment_seeds = EmptyMap
    /\ hashOf \in [HashInputs -> HashValues]
    /\ seedCalls = <<>>

NextSeed ==
    \/ SeedManagerCall
    \/ \E seed \in SeedValues : SetSeed(seed)
    \/ GetSeed
    \/ \E n \in ExperimentNames : CreateExperimentSeed(n)
    \/ \E n \in ExperimentNames : GetExperimentSeed(n)
    \/ Reset
    \/ GetReproducibleConfig

SpecSeed == InitSeed /\ [][NextSeed]_vars

----------------------------------------------------------------------------
(* src/utils/logger.py : DataLogger.__init__, setup_logging, the handlers *)

LoggerNames == {"download_logger", "volatility_prediction"}
LogDir == "../logs"

\* datetime.now().strftime("%Y%m%d"), the day of Strftime.
DayStamp == "20240101"

\* The levels of the logging module.
DEBUG == 10
INFO == 20
WARNING == 30
ERROR == 40

\* os.path.join(log_dir, f"{stem}_{timestamp}.log")
LogFilePath(log_dir, stem, timestamp) ==
    <<log_dir, "/", stem, "_", timestamp, ".log">>

\* logging.StreamHandler() and logging.FileHandler(log_file) with their level.
ConsoleHandler(level) == [kind |-> "console", path |-> <<>>, level |-> level]
FileHandler(log_file, level) == [kind |-> "file", path |-> log_file, level |-> level]

\* logging.getLogger(name).handlers; a logger never set up has none.
HandlersOf(name) == DictGet(handlers, name, <<>>)

\* logging.FileHandler(log_file) opens the file for appending: a file that is
\* not there is created empty.
Opened(log_file) == (log_file :> DictGet(logfiles, log_file, <<>>)) @@ logfiles

\* DataLogger._setup_file_handler: the file handler DataLogger adds.
DataLoggerFileHandler(name, log_dir) ==
    FileHandler(LogFilePath(log_dir, "data_download", DayStamp), DEBUG)

\* DataLogger(name, log_dir, enable_file_logging): the level is DEBUG, the
\* handlers of the logger are cleared, a console handler is added and, if
\* enabled, the file handler.
DataLoggerInit(name, log_dir, enable_file_logging) ==
    /\ Len(logcalls) < MaxLogCalls
    /\ levels' = (name :> DEBUG) @@ levels
    /\ handlers' =
           (name :> (<<ConsoleHandler(DEBUG)>> \o
                        IF enable_file_logging
                        THEN <<DataLoggerFileHandler(name, log_dir)>>
                        ELSE <<>>)) @@ handlers
    /\ logfiles' = IF enable_file_logging
                   THEN Opened(DataLoggerFileHandler(name, log_dir).path)
                   ELSE logfiles
    /\ logcalls' = Append(logcalls,
           [op |-> "DataLogger", name |-> name, log_dir |-> log_dir,
            file |-> enable_file_logging, method |-> "", via |-> 0,
            console |-> 0, written |-> <<>>])
    /\ UNCHANGED <<clock, files, writes, ioVars, dlVars, seedVars>>

\* setup_logging(name, log_dir, level): the level is set and a console handler
\* and a file handler are added to the handlers the logger has.
SetupLogging(name, log_dir, level) ==
    /\ Len(logcalls) < MaxLogCalls
    /\ levels' = (name :> level) @@ levels
    /\ handlers' =
           (name :> (HandlersOf(name) \o
                        <<ConsoleHandler(level),
                          FileHandler(LogFilePath(log_dir, name, DayStamp), level)>>))
               @@ handlers
    /\ logfiles' = Opened(LogFilePath(log_dir, name, DayStamp))
    /\ logcalls' = Append(logcalls,
           [op |-> "setup_logging", name |-> name, log_dir |-> log_dir,
            file |-> TRUE, method |-> "", via |-> 0,
            console |-> 0, written |-> <<>>])
    /\ UNCHANGED <<clock, files, writes, ioVars, dlVars, seedVars>>

\* The level at which a method logs: info and success call logger.info,
\* warning logger.warning, error logger.error, debug logger.debug.
Methods == {"info", "success", "warning", "error", "debug"}
LevelOf(method) ==
    CASE method = "info" -> INFO
      [] method = "success" -> INFO
      [] method = "warning" -> WARNING
      [] method = "error" -> ERROR
      [] method = "debug" -> DEBUG

\* The handlers of a logger that emit a record of a level: the logger drops
\* what is below its own level, then every handler what is below its level.
Emitting(name, level) ==
    IF level < levels[name] THEN <<>>
    ELSE SelectSeq(HandlersOf(name), LAMBDA h : level >= h.level)

\* The paths written by a list of handlers, one entry per file handler.
RECURSIVE PathsOf(_)
PathsOf(hs) ==
    IF hs = <<>> THEN <<>>
    ELSE (IF Head(hs).kind = "file" THEN <<Head(hs).path>> ELSE <<>>)
             \o PathsOf(Tail(hs))

\* The lines appended to the log files by one record, written once per path
\* in the list.
RECURSIVE AppendTo(_, _, _)
AppendTo(fs, paths, line) ==
    IF paths = <<>> THEN fs
    ELSE AppendTo([fs EXCEPT ![Head(paths)] = Append(@, line)], Tail(paths), line)

\* The objects (DataLogger instances, loggers returned by setup_logging) made.
LogObjects == {k \in DOMAIN logcalls : logcalls[k].op \in {"DataLogger", "setup_logging"}}

\* A message sent through the object made by call `via`: the methods of a
\* DataLogger, or those of the plain logger (which has no success method).
\* Both hand the record to logging.getLogger(name) as it is set up now.
LogMessage(via, method) ==
    /\ Len(logcalls) < MaxLogCalls
    /\ via \in LogObjects
    /\ method = "success" => logcalls[via].op = "DataLogger"
    /\ LET name == logcalls[via].name
           hs == Emitting(name, LevelOf(method))
           line == [name |-> name, level |-> LevelOf(method),
                    id |-> Len(logcalls) + 1]
       IN  /\ logfiles' = AppendTo(logfiles, PathsOf(hs), line)
           /\ logcalls' = Append(logcalls,
                  [op |-> "message", name |-> name,
                   log_dir |-> logcalls[via].log_dir,
                   file |-> logcalls[via].file, method |-> method, via |-> via,
                   console |-> Len(SelectSeq(hs, LAMBDA h : h.kind = "console")),
                   written |-> PathsOf(hs)])
    /\ UNCHANGED <<clock, files, writes, ioVars, dlVars, seedVars, handlers, levels>>

InitLog ==
    /\ clock = 0
    /\ files = NoFiles
    /\ writes = <<>>
    /\ ioArg = None
    /\ ioCalls = <<>>
    /\ ioLast = NoIoLast
    /\ DlIdle
    /\ SeedIdle
    /\ LogIdle

NextLog ==
    \/ \E name \in LoggerNames, enable_file_logging \in BOOLEAN :
           DataLoggerInit(name, LogDir, enable_file_logging)
    \/ \E name \in LoggerNames : SetupLogging(name, LogDir, INFO)
    \/ \E via \in 1..MaxLogCalls, method \in Methods : LogMessage(via, method)

SpecLog == InitLog /\ [][NextLog]_vars

----------------------------------------------------------------------------
(* Notions used by the properties *)

InBatch == pc \in {"loop", "done"}
BatchTickers == Get(batch).tickers

\* Attempts that returned None (failed) and that returned a record.
FailedAttempts == {k \in DOMAIN attempts : IsNone(attempts[k].ret)}
SucceededAttempts == {k \in DOMAIN attempts : ~IsNone(attempts[k].ret)}

\* Attempts whose fetch was non-empty and whose save raised no error.
PersistedAttempts ==
    {k \in DOMAIN attempts :
        /\ ~IsNone(attempts[k].remote)
        /\ ~Empty(Get(attempts[k].remote))
        /\ attempts[k].outcome # "save_error"}

Distinct(seq) == \A a, b \in DOMAIN seq : a # b => seq[a] # seq[b]

\* s is t with some elements left out (same relative order).
RECURSIVE IsSubsequence(_, _)
IsSubsequence(s, t) ==
    IF s = <<>> THEN TRUE
    ELSE IF t = <<>> THEN FALSE
    ELSE IF Head(s) = Head(t) THEN IsSubsequence(Tail(s), Tail(t))
    ELSE IsSubsequence(s, Tail(t))

----------------------------------------------------------------------------
(* C1 *)

\* C1 as stated: when the batch call has returned, the result set has exactly
\* N - M entries (N tickers passed, repeats allowed, M failed downloads) and no
\* exception left the call.
C1_Original ==
    pc = "done" =>
        /\ ~raised
        /\ Len(Get(returned)) = Len(BatchTickers) - Cardinality(FailedAttempts)

\* C1 amended: no exception leaves the batch call; the result set has one entry
\* per distinct ticker with at least one successful download, which is at most
\* N - M, and exactly N - M when the tickers passed are pairwise distinct.
C1_Amended ==
    pc = "done" =>
        /\ ~raised
        /\ ~IsNone(returned)
        /\ Len(Get(returned)) =
               Cardinality({attempts[k].ticker : k \in SucceededAttempts})
        /\ Len(Get(returned)) <= Len(BatchTickers) - Cardinality(FailedAttempts)
        /\ Distinct(BatchTickers) =>
               Len(Get(returned)) = Len(BatchTickers) - Cardinality(FailedAttempts)

\* A batch of two distinct tickers, one failed, has returned one entry.
C1_Witness ==
    /\ pc = "done"
    /\ Len(BatchTickers) = 2
    /\ Distinct(BatchTickers)
    /\ Cardinality(FailedAttempts) = 1
    /\ Len(Get(returned)) = 1

----------------------------------------------------------------------------
(* C2 *)

\* C2: during and after a batch, the remote calls made so far are exactly the
\* tickers processed so far, in input order, one call per ticker whatever the
\* outcome of the earlier ones; when the batch returns every ticker was fetched.
C2_EveryTickerFetchedOnceInOrder ==
    InBatch =>
        /\ idx <= Len(BatchTickers)
        /\ fetched = SubSeq(BatchTickers, 1, idx)
        /\ Len(attempts) = idx
        /\ \A k \in DOMAIN attempts :
               /\ attempts[k].ticker = BatchTickers[k]
               /\ attempts[k].fetches = 1
        /\ pc = "done" => fetched = BatchTickers

\* The first ticker of two failed and the second was fetched all the same.
C2_Witness ==
    /\ pc = "done"
    /\ Len(BatchTickers) = 2
    /\ IsNone(attempts[1].ret)
    /\ fetched = BatchTickers
    /\ ~IsNone(attempts[2].ret)

----------------------------------------------------------------------------
(* C3 *)

\* C3 as stated: at every point of a batch the keys of the result set are
\* exactly the processed tickers whose fetch succeeded (non-empty and persisted
\* without error), in the relative order of the input; a ticker without such a
\* fetch is never a key.
C3_ResultSetIsPersistedTickers ==
    InBatch =>
        /\ Range(Keys(results)) = {attempts[k].ticker : k \in PersistedAttempts}
        /\ Distinct(Keys(results))
        /\ IsSubsequence(Keys(results), SubSeq(BatchTickers, 1, idx))

----------------------------------------------------------------------------
(* C4 *)

HasLine(lines, level, kind, text) ==
    \E j \in DOMAIN lines :
        lines[j].level = level /\ lines[j].kind = kind /\ lines[j].text = text

\* What every call of download_single_stock that ends without a record does,
\* whether or not logging is enabled: it returns None, made one remote call,
\* raised nothing, and wrote no file when the remote result was empty.
ReturnsNoneQuietly(a) ==
    /\ IsNone(a.ret)
    /\ a.fetches = 1
    /\ a.outcome = "empty" => IsNone(a.wrote)

\* C4 as stated: download_single_stock never raises; on an empty result it
\* returns None, logs a warning and writes no file; when the remote call or the
\* save raises it returns None and logs an error with the exception text; one
\* remote call was made in both cases.
C4_Original ==
    /\ ~raised
    /\ \A k \in DOMAIN attempts :
          LET a == attempts[k]
          IN  /\ a.outcome = "empty" =>
                    /\ ReturnsNoneQuietly(a)
                    /\ HasLine(a.lines, "WARNING", "no_data", "")
              /\ a.outcome \in {"fetch_error", "save_error"} =>
                    /\ ReturnsNoneQuietly(a)
                    /\ a.text # ""
                    /\ HasLine(a.lines, "ERROR", "error", a.text)

\* C4 amended: as stated when logging is enabled; with logging disabled
\* (use_logging=False) the same calls return None after one remote call, log
\* nothing, and the error case prints the exception text instead.
C4_Amended ==
    /\ ~raised
    /\ \A k \in DOMAIN attempts :
          LET a == attempts[k]
          IN  /\ a.outcome = "empty" =>
                    /\ ReturnsNoneQuietly(a)
                    /\ use_logging => HasLine(a.lines, "WARNING", "no_data", "")
                    /\ ~use_logging => a.lines = <<>> /\ a.printed = <<>>
              /\ a.outcome \in {"fetch_error", "save_error"} =>
                    /\ ReturnsNoneQuietly(a)
                    /\ a.text # ""
                    /\ use_logging => HasLine(a.lines, "ERROR", "error", a.text)
                    /\ ~use_logging =>
                          /\ a.lines = <<>>
                          /\ a.printed = <<PrintedError(a.ticker, a.text)>>

\* With logging enabled, one call found no data and another failed in the save.
C4_Witness ==
    /\ use_logging
    /\ \E j, k \in DOMAIN attempts :
          /\ attempts[j].outcome = "empty"
          /\ attempts[k].outcome = "save_error"
          /\ HasLine(attempts[k].lines, "ERROR", "error", "OSError")

----------------------------------------------------------------------------
(* C5 *)

NonEmptyFetch(a) == ~IsNone(a.remote) /\ ~Empty(Get(a.remote))

\* C5 as stated: whenever the remote fetch returns a non-empty series,
\* download_single_stock returns that record and the CSV file persisted by the
\* same call has as many data rows as the record.
C5_Original ==
    \A k \in DOMAIN attempts :
        NonEmptyFetch(attempts[k]) =>
            /\ attempts[k].ret = attempts[k].remote
            /\ ~IsNone(attempts[k].wrote)
            /\ attempts[k].fileRows = Get(attempts[k].remote).nrows

\* C5 amended: whenever download_single_stock returns a record, it is the
\* non-empty series the remote fetch returned and the CSV file persisted by the
\* same call has as many data rows as the record; a non-empty fetch ends
\* without a record exactly when the save or a logging step after it raises.
C5_Amended ==
    \A k \in DOMAIN attempts :
        LET a == attempts[k]
        IN  /\ ~IsNone(a.ret) =>
                  /\ NonEmptyFetch(a)
                  /\ a.ret = a.remote
                  /\ ~IsNone(a.wrote)
                  /\ Get(a.wrote) \in DOMAIN files
                  /\ a.fileRows = Get(a.ret).nrows
            /\ (NonEmptyFetch(a) /\ IsNone(a.ret)) =>
                  a.outcome \in {"save_error", "stats_error"}
            /\ (NonEmptyFetch(a) /\ a.outcome \notin {"save_error", "stats_error"}) =>
                  ~IsNone(a.ret)

\* A call returned a record of MaxRows rows and wrote its file.
C5_Witness ==
    \E k \in DOMAIN attempts :
        /\ ~IsNone(attempts[k].ret)
        /\ Get(attempts[k].ret).nrows = MaxRows
        /\ attempts[k].fileRows = MaxRows

----------------------------------------------------------------------------
(* C6 *)

\* C6: in one batch call the combined Excel write happens at most once, only
\* after every ticker was processed, only with save_combined_excel set and a
\* non-empty result set; with the flag unset or an empty result set no workbook
\* is written.
C6_ExcelOnceAtEnd ==
    /\ Len(excel) <= 1
    /\ \A e \in DOMAIN excel :
          /\ pc = "done"
          /\ excel[e].processed = Len(BatchTickers)
          /\ Get(batch).save_combined_excel
          /\ Len(excel[e].sheets) > 0
          /\ excel[e].sheets = Keys(Get(returned))
    /\ (pc = "done" /\ (~Get(batch).save_combined_excel \/ Len(Get(returned)) = 0)) =>
          excel = <<>>

\* A batch with a failed ticker and a successful one wrote the workbook.
C6_Witness ==
    /\ pc = "done"
    /\ Len(excel) = 1
    /\ Len(BatchTickers) = 2
    /\ Cardinality(FailedAttempts) = 1

----------------------------------------------------------------------------
(* C7 *)

ExcelFailed == pc = "done" /\ Len(excel) = 1 /\ ~excel[1].ok

\* What a failed Excel write leaves alone: the value returned is the result
\* set built by the loop, the CSV files are as they were before the write, and
\* no exception leaves the call.
ExcelFailureContained ==
    /\ returned = Some(results)
    /\ Keys(results) = excel[1].sheets
    /\ files = excel[1].files
    /\ ~raised

\* C7 as stated: if the combined Excel write fails, the batch call logs an
\* error and still returns the result set; CSV files unchanged, no exception.
C7_Original ==
    ExcelFailed =>
        /\ HasLine(log, "ERROR", "excel_failed", "ExcelError")
        /\ ExcelFailureContained

\* C7 amended: as stated, except that the error is logged only when logging is
\* enabled; with use_logging=False the failure is swallowed without a message.
C7_Amended ==
    ExcelFailed =>
        /\ use_logging => HasLine(log, "ERROR", "excel_failed", "ExcelError")
        /\ ~use_logging => log = <<>>
        /\ ExcelFailureContained

\* The workbook write failed after a CSV file had been saved.
C7_Witness ==
    /\ ExcelFailed
    /\ use_logging
    /\ DOMAIN files # {}
    /\ Len(Get(returned)) >= 1

----------------------------------------------------------------------------
(* C8 *)

IsDigit(c) == \E d \in DOMAIN DigitChars : DigitChars[d] = c
DigitValue(c) == (CHOOSE d \in DOMAIN DigitChars : DigitChars[d] = c) - 1
TwoDigits(s, at) == 10 * DigitValue(s[at]) + DigitValue(s[at + 1])

\* s reads YYYYMMDD_HHMMSS.
IsTimestamp(s) ==
    /\ Len(s) = 15
    /\ s[9] = "_"
    /\ \A k \in (1..8) \cup (10..15) : IsDigit(s[k])

\* The second of the day a timestamp shows.
SecondShown(s) == 3600 * TwoDigits(s, 10) + 60 * TwoDigits(s, 12) + TwoDigits(s, 14)

\* name reads {ticker}_{period}_{YYYYMMDD_HHMMSS}.csv for the given second.
IsAutoName(name, ticker, period, second) ==
    LET head == ticker \o <<"_">> \o period \o <<"_">>
        stamp == SubSeq(name, Len(head) + 1, Len(head) + 15)
    IN  /\ Len(name) = Len(head) + 15 + Len(DotCsv)
        /\ SubSeq(name, 1, Len(head)) = head
        /\ IsTimestamp(stamp)
        /\ SecondShown(stamp) = second
        /\ SubSeq(name, Len(head) + 16, Len(name)) = DotCsv

----------------------------------------------------------------------------
(* C9 *)

\* Pairs of CSV writes, the earlier first, made with the auto-generated
\* filename for the same ticker and period.
SameStockAutoWrites ==
    {jk \in (DOMAIN writes) \X (DOMAIN writes) :
        /\ jk[1] < jk[2]
        /\ writes[jk[1]].auto /\ writes[jk[2]].auto
        /\ writes[jk[1]].ticker = writes[jk[2]].ticker
        /\ writes[jk[1]].period = writes[jk[2]].period}

\* C9 as stated: two downloads of the same ticker and period with the
\* auto-generated filename never collide: each writes a distinct path and no
\* earlier file is overwritten.
C9_Original ==
    \A jk \in SameStockAutoWrites :
        /\ writes[jk[1]].path # writes[jk[2]].path
        /\ ~writes[jk[2]].replaced

\* C9 amended: two such downloads write distinct paths, and the later leaves
\* the earlier file alone, when the wall clock shows different seconds at the
\* two writes; when it shows the same second they write the same path and the
\* later write replaces the earlier file.
C9_Amended ==
    /\ \A jk \in SameStockAutoWrites :
          /\ writes[jk[1]].second # writes[jk[2]].second =>
                writes[jk[1]].path # writes[jk[2]].path
          /\ writes[jk[1]].second = writes[jk[2]].second =>
                /\ writes[jk[1]].path = writes[jk[2]].path
                /\ writes[jk[2]].replaced
    /\ \A k \in DOMAIN writes :
          (writes[k].auto /\ writes[k].replaced) =>
              \E j \in 1..(k - 1) : /\ <<j, k>> \in SameStockAutoWrites
                                    /\ writes[j].second = writes[k].second

\* Two downloads of one ticker in different seconds left two files.
C9_Witness ==
    \E jk \in SameStockAutoWrites :
        /\ writes[jk[1]].second # writes[jk[2]].second
        /\ writes[jk[1]].path \in DOMAIN files
        /\ writes[jk[2]].path \in DOMAIN files
        /\ Cardinality(DOMAIN files) = 2

----------------------------------------------------------------------------
(* C10 *)

Loaded == ioLast.op = "load" /\ ioLast.error = ""
LoadedFrame == Get(ioLast.result)
SavedFrame == LastWrite(ioLast.path).df

\* C10 as stated: save_dataframe_to_csv followed by load_csv_data on the
\* returned path gives back the record's row count and column count.
C10_Original ==
    Loaded =>
        /\ LoadedFrame.nrows = SavedFrame.nrows
        /\ Len(LoadedFrame.columns) = Len(SavedFrame.columns)

\* C10 amended: the round trip gives back the row count; the column count
\* comes back unchanged for a record whose index has no name, and one higher
\* (the index written as a column) for a record with a named index.
C10_Amended ==
    Loaded =>
        /\ LoadedFrame.nrows = SavedFrame.nrows
        /\ SavedFrame.index # "named" =>
              Len(LoadedFrame.columns) = Len(SavedFrame.columns)
        /\ SavedFrame.index = "named" =>
              Len(LoadedFrame.columns) = Len(SavedFrame.columns) + 1

\* A record of MaxRows rows with a named index was saved and loaded back.
C10_Witness ==
    /\ Loaded
    /\ SavedFrame.index = "named"
    /\ SavedFrame.nrows = MaxRows
    /\ LoadedFrame.nrows = MaxRows

----------------------------------------------------------------------------
(* C11 *)

\* The records whose index holds timestamps.
TimestampIndexed(df) == df.index \in {"named", "unnamed"}

\* The file has a date column: one column more than the record's columns,
\* whose cell in every line is the timestamp of that line's row.
HasDateColumn(content, df) ==
    /\ Len(content.header) = Len(df.columns) + 1
    /\ Len(content.rows) = df.nrows
    /\ \E c \in DOMAIN content.header :
          \A r \in DOMAIN content.rows : content.rows[r][c] = <<"date", r>>

\* C11: every CSV file written by save_dataframe_to_csv for a
\* timestamp-indexed record has an explicit date column holding the record's
\* timestamps, whether or not the index of the record carries a name.
C11_DateColumnAlwaysWritten ==
    \A path \in DOMAIN files :
        TimestampIndexed(LastWrite(path).df) =>
            HasDateColumn(files[path], LastWrite(path).df)

----------------------------------------------------------------------------
(* C12 *)

InfoDone == ioLast.op = "info" /\ ioLast.error = ""

\* C12: load_csv_data and get_data_file_info on a path that does not exist
\* end in FileNotFoundError, which reaches the caller, and no file is created
\* or modified by such a call; on a path that exists get_data_file_info
\* reports the number of rows and of columns of the file.
C12_MissingPathRaises ==
    /\ [](ioLast.op \in {"load", "info"} =>
            /\ ioLast.path \notin DOMAIN files <=> ioLast.error = "FileNotFoundError"
            /\ ioLast.error = "FileNotFoundError" => IsNone(ioLast.result)
            /\ InfoDone =>
                  /\ Get(ioLast.result).rows = Len(files[ioLast.path].rows)
                  /\ Get(ioLast.result).columns = Len(files[ioLast.path].header))
    /\ [][(ioLast'.op \in {"load", "info"} /\ ioLast'.error = "FileNotFoundError") =>
              files' = files]_vars

\* get_data_file_info failed on the missing path while a file was on disk,
\* and the file is still there.
C12_Witness ==
    /\ ioLast.op = "info"
    /\ ioLast.error = "FileNotFoundError"
    /\ ioLast.path = MissingPath
    /\ Cardinality(DOMAIN files) = 1

----------------------------------------------------------------------------
(* C13 *)

CallsOf(op) == {k \in DOMAIN seedCalls : seedCalls[k].op = op}

\* 0 .. 2^32 - 2
InSeedRange(v) == v \in Words /\ v # Modulus

\* The hashes of a name under two base seeds collide when they are congruent
\* modulo 2^32 - 1 (equal hashes included).
Collide(name, seed1, seed2) ==
    PyMod(hashOf[FormatKey(name, seed1)]) = PyMod(hashOf[FormatKey(name, seed2)])

\* C13: two create_experiment_seed calls for one name under one base seed
\* return the same value, every value returned lies in 0 .. 2^32 - 2, and two
\* calls for one name under different base seeds return different values
\* unless the two hashes collide.
C13_ExperimentSeedDerivation ==
    \A i \in CallsOf("create_experiment_seed") :
        /\ InSeedRange(Get(seedCalls[i].value))
        /\ \A j \in CallsOf("create_experiment_seed") :
              seedCalls[i].name = seedCalls[j].name =>
                  /\ seedCalls[i].base = seedCalls[j].base =>
                        seedCalls[i].value = seedCalls[j].value
                  /\ (/\ seedCalls[i].base # seedCalls[j].base
                      /\ ~Collide(seedCalls[i].name, seedCalls[i].base,
                                  seedCalls[j].base)) =>
                        seedCalls[i].value # seedCalls[j].value

\* A name was derived twice under the default seed with one value, whose hash
\* is negative, and after set_seed(7) once more with another value.
C13_Witness ==
    /\ Len(seedCalls) = 4
    /\ seedCalls[1].op = "create_experiment_seed"
    /\ seedCalls[2].op = "create_experiment_seed"
    /\ seedCalls[3].op = "set_seed"
    /\ seedCalls[4].op = "create_experiment_seed"
    /\ seedCalls[1].base = DefaultSeed
    /\ seedCalls[4].base = 7
    /\ hashOf[FormatKey("x", DefaultSeed)].neg
    /\ seedCalls[1].value = seedCalls[2].value
    /\ seedCalls[4].value # seedCalls[1].value

----------------------------------------------------------------------------
(* C14 *)

\* C14: a get_experiment_seed call for a name that already has a derived
\* value returns that value, runs no derivation and leaves the mapping as it
\* was.
C14_LookupDerivesOnFirstAccessOnly ==
    \A k \in CallsOf("get_experiment_seed") :
        seedCalls[k].name \in DOMAIN seedCalls[k].before =>
            /\ Get(seedCalls[k].value) = seedCalls[k].before[seedCalls[k].name]
            /\ seedCalls[k].derived = 0
            /\ seedCalls[k].after = seedCalls[k].before

----------------------------------------------------------------------------
(* C15 *)

\* The set_seed and reset calls before call k.
SettingsBefore(k) ==
    {j \in 1..(k - 1) : seedCalls[j].op \in {"set_seed", "reset"}}

LastSettingBefore(k) ==
    CHOOSE j \in SettingsBefore(k) : \A i \in SettingsBefore(k) : i <= j

\* C15: after set_seed(s), and until the next set_seed or reset, get_seed on
\* any handle and the 'seed' of get_reproducible_config() return s, and no
\* call other than reset and the experiment-seed calls changes the mapping.
C15_SingletonKeepsSeed ==
    /\ \A k \in CallsOf("get_seed") \cup CallsOf("get_reproducible_config") :
          (/\ SettingsBefore(k) # {}
           /\ seedCalls[LastSettingBefore(k)].op = "set_seed") =>
              seedCalls[k].seed = Some(seedCalls[LastSettingBefore(k)].arg)
    /\ \A k \in DOMAIN seedCalls :
          seedCalls[k].op \in {"SeedManager", "set_seed", "get_seed",
                               "get_reproducible_config"} =>
              seedCalls[k].after = seedCalls[k].before

----------------------------------------------------------------------------
(* C16 *)

\* The file handlers of a logger.
FileHandlersOf(name) == SelectSeq(HandlersOf(name), LAMBDA h : h.kind = "file")
ConsoleHandlersOf(name) == SelectSeq(HandlersOf(name), LAMBDA h : h.kind = "console")

Messages == {k \in DOMAIN logcalls : logcalls[k].op = "message"}

\* C16: every file handler of a logger writes to
\* {log_dir}/{logger_name}_{YYYYMMDD}.log, no two loggers of different names
\* write to one file, and every message sent through a file-enabled logger is
\* appended to the file of that logger.
C16_LogFileNamedAfterLogger ==
    /\ \A name \in DOMAIN handlers :
          \A k \in DOMAIN FileHandlersOf(name) :
              FileHandlersOf(name)[k].path = LogFilePath(LogDir, name, DayStamp)
    /\ \A n1 \in DOMAIN handlers, n2 \in DOMAIN handlers :
          n1 # n2 =>
              Range(PathsOf(HandlersOf(n1))) \cap Range(PathsOf(HandlersOf(n2))) = {}
    /\ \A k \in Messages :
          logcalls[k].file =>
              LogFilePath(logcalls[k].log_dir, logcalls[k].name, DayStamp)
                  \in Range(logcalls[k].written)

----------------------------------------------------------------------------
(* C17 *)

\* C17: in a batch called with save_individual=False no per-ticker CSV file is
\* written, in a batch called with save_individual=True one is written for
\* every ticker downloaded successfully; the result set has the tickers
\* downloaded successfully whatever the flag.
C17_SaveIndividualControlsCsv ==
    InBatch =>
        /\ ~Get(batch).save_individual => (writes = <<>> /\ files = NoFiles)
        /\ Get(batch).save_individual =>
              \A k \in SucceededAttempts :
                  ~IsNone(attempts[k].wrote) /\ Get(attempts[k].wrote) \in DOMAIN files
        /\ Range(Keys(results)) = {attempts[k].ticker : k \in SucceededAttempts}

----------------------------------------------------------------------------
(* C18 *)

\* C18: a download_single_stock call that returned None persisted no CSV
\* file, and when a batch has returned, the tickers for which a CSV file was
\* written are the keys of the returned result set.
C18_NoneMeansNothingPersisted ==
    /\ \A k \in DOMAIN attempts :
          IsNone(attempts[k].ret) => IsNone(attempts[k].wrote)
    /\ pc = "done" =>
          {writes[k].ticker : k \in DOMAIN writes} = Range(Keys(Get(returned)))

----------------------------------------------------------------------------
(* C19 *)

Kinds(lines) == [j \in DOMAIN lines |-> lines[j].kind]

\* The lines logged by the download_single_stock calls so far, call by call.
RECURSIVE LinesOf(_)
LinesOf(as) ==
    IF as = <<>> THEN <<>> ELSE Head(as).lines \o LinesOf(Tail(as))

\* C19: with logging enabled, the lines of every download_single_stock call
\* are a start line followed by exactly one outcome (the no-data warning, or
\* the complete line and then the stats line, or the error line), all for the
\* ticker of the call; nothing else is logged between the calls, so that every
\* outcome line has the start line of its ticker before it; and a batch has
\* printed one separator after each ticker processed.
C19_StartThenOneOutcome ==
    use_logging =>
        /\ \A k \in DOMAIN attempts :
              /\ Kinds(attempts[k].lines) \in
                     {<<"start", "no_data">>, <<"start", "complete", "stats">>,
                      <<"start", "error">>}
              /\ \A j \in DOMAIN attempts[k].lines :
                    attempts[k].lines[j].ticker = attempts[k].ticker
        /\ pc # "done" => log = LinesOf(attempts)
        /\ InBatch =>
              /\ Len(console) = idx
              /\ \A j \in DOMAIN console : console[j] = SeparatorLine

----------------------------------------------------------------------------
(* C20 *)

\* How often a path occurs in a list of paths.
Copies(paths, path) == Cardinality({k \in DOMAIN paths : paths[k] = path})

\* C20: whatever DataLogger constructions and setup_logging calls were made,
\* a logger has at most one console handler and at most one file handler, and
\* a message is emitted at most once on the console and once to a file.
C20_HandlersNeverAccumulate ==
    /\ \A name \in DOMAIN handlers :
          /\ Len(ConsoleHandlersOf(name)) <= 1
          /\ Len(FileHandlersOf(name)) <= 1
    /\ \A k \in Messages :
          /\ logcalls[k].console <= 1
          /\ \A path \in Range(logcalls[k].written) :
                Copies(logcalls[k].written, path) <= 1

====
